---------------------------- MODULE Spec2Model ----------------------------
(***************************************************************************)
(* Model of the Space mutation engine of terra-discover-api: the POST,     *)
(* PATCH and DELETE handlers of /api/spaces, the slug generator            *)
(* ensureUniqueSlug, and the tables of the Prisma schema they touch.       *)
(*                                                                         *)
(* Every `await prisma...` of a handler is one atomic step of the request  *)
(* that runs it; the synchronous code between two awaits belongs to the    *)
(* step of the await before it.  Requests of different processes           *)
(* interleave at these steps.                                              *)
(*                                                                         *)
(* Strings that the code inspects character by character (display names,   *)
(* slugs, Space ids) are sequences of one-character strings.  Optional     *)
(* payload keys are None (key absent) or Some(v).                          *)
(***************************************************************************)
EXTENDS Integers, Sequences, FiniteSets, TLC

None == <<>>
Some(v) == <<v>>
IsSome(o) == o # <<>>
Val(o) == o[1]

Range(s) == {s[i] : i \in 1..Len(s)}

(***************************************************************************)
(* Bounds of the model.                                                    *)
(***************************************************************************)
\* Requests received in a behaviour of Spec (requests interleave).
MaxRequests == 3
\* Requests received in a behaviour of SpecSeq (one request at a time).
MaxRequestsSeq == 3
\* Requests received in a behaviour of SpecPayload (one request at a time).
MaxRequestsPayload == 2
\* Requests received in a behaviour of SpecRace (requests interleave).
MaxRequestsRace == 3
\* Requests received in a behaviour of SpecTaxonomy (requests interleave).
MaxRequestsTaxonomy == 2
\* Requests received in a behaviour of SpecLive (creates interleave).
MaxRequestsLive == 3
\* Requests received in a behaviour of SpecIds (one request at a time).
MaxRequestsIds == 3

(***************************************************************************)
(* slugify (package.json: slugify ^1.6.6), on the alphabet of the model.   *)
(***************************************************************************)
LowerLetters == {"c", "f"}
UpperLetters == {"F"}
DigitChars == <<"0", "1", "2", "3", "4", "5", "6", "7", "8", "9">>
Whitespace == {" "}
\* characters outside [A-Za-z0-9\s] that the default remove pattern keeps
Punctuation == {"!", "-"}

IsWordChar(ch) == ch \in LowerLetters \cup UpperLetters \cup Range(DigitChars)

ToLowerCase(ch) == IF ch = "F" THEN "f" ELSE ch

RECURSIVE TrimStart(_)
TrimStart(s) ==
    IF s # <<>> /\ Head(s) \in Whitespace THEN TrimStart(Tail(s)) ELSE s

RECURSIVE TrimEnd(_)
TrimEnd(s) ==
    IF s # <<>> /\ s[Len(s)] \in Whitespace
    THEN TrimEnd(SubSeq(s, 1, Len(s) - 1))
    ELSE s

\* slug.replace(/\s+/g, replacement): every run of whitespace becomes one "-"
RECURSIVE ReplaceSpaces(_)
ReplaceSpaces(s) ==
    IF s = <<>> THEN <<>>
    ELSE IF Head(s) \in Whitespace
         THEN <<"-">> \o ReplaceSpaces(TrimStart(Tail(s)))
         ELSE <<Head(s)>> \o ReplaceSpaces(Tail(s))

\* slugify(string, {lower, strict}) with the default replacement "-" and trim
Slugify(string, lower, strict) ==
    LET replaced == [i \in 1..Len(string) |->
                        IF string[i] = "-" THEN " " ELSE string[i]]
        IsKept(ch) == IsWordChar(ch) \/ ch \in Whitespace \/ ch \in Punctuation
        IsStrict(ch) == IsWordChar(ch) \/ ch \in Whitespace
        kept == SelectSeq(replaced, IsKept)
        stricted == IF strict THEN SelectSeq(kept, IsStrict) ELSE kept
        hyphened == ReplaceSpaces(TrimEnd(TrimStart(stricted)))
    IN  IF lower
        THEN [i \in 1..Len(hyphened) |-> ToLowerCase(hyphened[i])]
        ELSE hyphened

\* String(counter) of the template literal `${...}-${counter}`
RECURSIVE NatToString(_)
NatToString(n) ==
    IF n < 10 THEN <<DigitChars[n + 1]>>
    ELSE NatToString(n \div 10) \o <<DigitChars[(n % 10) + 1]>>

\* the first candidate of ensureUniqueSlug
BaseSlug(baseName) == Slugify(baseName, TRUE, TRUE)

\* mutant: every suffix is used for two candidates in a row
SuffixedSlugTwice(baseName, counter) ==
    Slugify(baseName, FALSE, FALSE) \o <<"-">> \o NatToString((counter + 1) \div 2)

\* the candidate built after a collision: `${slugify(baseName)}-${counter}`
SuffixedSlug(baseName, counter) ==
    Slugify(baseName, FALSE, FALSE) \o <<"-">> \o NatToString(counter)


(***************************************************************************)
(* Inputs of the model.                                                    *)
(***************************************************************************)
\* request slots, in the order arriving requests take them
ProcOrder == <<"r1", "r2">>
Procs == Range(ProcOrder)
Users == {"u1", "u2"}
\* display names: "f" and "F" share the base slug "f"; "f 1" has the base
\* slug "f-1", the first suffixed candidate of "f"
Names == {<<"f">>, <<"F">>, <<"f", " ", "1">>}
\* JSON null in a payload
Null == "null"

\* cuid(): a fresh lowercase alphanumeric id starting with "c"
SpaceId(n) == <<"c">> \o NatToString(n)

(***************************************************************************)
(* The store: one variable per table of the schema.                        *)
(***************************************************************************)
VARIABLES
    space,                  \* Space: id -> row
    spaceType,              \* SpaceType: id -> name
    spaceCategory,          \* SpaceCategory: id -> name
    spaceFeature,           \* SpaceFeature: id -> name
    spaceToSpaceCategory,   \* _SpaceToSpaceCategory: set of <<A, B>>
    spaceToSpaceFeature,    \* _SpaceToSpaceFeature: set of <<A, B>>
    nextId,                 \* number of Space ids generated so far, plus one
    req,                    \* the request each process is handling
    requests                \* number of requests received so far

store == <<space, spaceType, spaceCategory, spaceFeature,
           spaceToSpaceCategory, spaceToSpaceFeature, nextId>>
vars == <<store, req, requests>>

\* rows of a join table that belong to Space id
CategoriesOf(id) == {r[2] : r \in {q \in spaceToSpaceCategory : q[1] = id}}
FeaturesOf(id) == {r[2] : r \in {q \in spaceToSpaceFeature : q[1] = id}}

(***************************************************************************)
(* Responses.                                                              *)
(***************************************************************************)
NoMessage == [text |-> "", ids |-> <<>>]
Message(text, ids) == [text |-> text, ids |-> ids]
Response(code, message, body) ==
    [code |-> code, message |-> message, body |-> body]

\* mutant: the 404 for a missing type without the id in its message
TypeNotFoundUnnamed(typeId) ==
    Response(404, Message("Space type not found.", <<>>), None)

TypeNotFound(typeId) ==
    Response(404, Message("Space Type with ID '%' not found.", <<typeId>>), None)
CategoriesNotFound(missingIds) ==
    Response(404, Message("One or more Category IDs not found: %.", missingIds), None)
FeaturesNotFound(missingIds) ==
    Response(404, Message("One or more Feature IDs not found: %.", missingIds), None)
SpaceNotFound == Response(404, Message("Space not found.", <<>>), None)

(***************************************************************************)
(* A request: the locals of the handler that runs it.                      *)
(***************************************************************************)
NoPayload ==
    [name |-> None, typeId |-> None, categoryIds |-> None,
     featureIds |-> None, description |-> None]
NoUpdateData ==
    [name |-> None, description |-> None, slug |-> None, type |-> None,
     categories |-> None, features |-> None]
IdleReq ==
    [pc |-> "idle", op |-> "none", caller |-> "", identifier |-> <<>>,
     json |-> NoPayload, payload |-> NoPayload, existingSpace |-> None, slug |-> <<>>,
     counter |-> 0, updateData |-> NoUpdateData, error |-> "",
     response |-> Response(0, NoMessage, None), calls |-> <<>>,
     overlaps |-> {}]

Init ==
    /\ space = <<>>
    /\ spaceType = [id \in {"t1", "t2"} |->
                        IF id = "t1" THEN "Park" ELSE "Museum"]
    /\ spaceCategory = [id \in {"c1", "c2"} |->
                            IF id = "c1" THEN "Historical" ELSE "Recreational"]
    /\ spaceFeature = [id \in {"f1"} |-> "Wi-Fi"]
    /\ spaceToSpaceCategory = {}
    /\ spaceToSpaceFeature = {}
    /\ nextId = 1
    /\ req = [p \in Procs |-> IdleReq]
    /\ requests = 0

\* process p goes on with locals r; no request arrives
Goto(p, r) == req' = [req EXCEPT ![p] = r] /\ UNCHANGED requests

\* the processes whose handler is between its first step and its response
Running == {q \in Procs : req[q].pc \notin {"idle", "done"}}

\* a request arrives at the first free process p; `overlaps` records, for the
\* properties only, which requests run while which others do
Arrive(p, r, maxRequests) ==
    /\ requests < maxRequests
    /\ req[p].pc = "idle"
    /\ \A i \in 1..Len(ProcOrder) :
           ProcOrder[i] = p => \A j \in 1..(i - 1) : req[ProcOrder[j]].pc # "idle"
    /\ req' = [q \in Procs |->
                 IF q = p THEN [r EXCEPT !.overlaps = Running]
                 ELSE IF q \in Running THEN [req[q] EXCEPT !.overlaps = @ \cup {p}]
                 ELSE req[q]]
    /\ requests' = requests + 1
Called(r, call) == [r EXCEPT !.calls = Append(@, call)]
Finish(r, response) == [r EXCEPT !.pc = "done", !.response = response]

(***************************************************************************)
(* ensureUniqueSlug(baseName)                                              *)
(***************************************************************************)
\* mutant: the existence check of ensureUniqueSlug never finds a row
FindSpaceBySlugNever(slug) == {}

\* prisma.space.findUnique({ where: { slug } }): the ids of the rows it finds
FindSpaceBySlug(slug) == {id \in DOMAIN space : space[id].slug = slug}

\* mutant: the counter starts at 2
EnterEnsureUniqueSlugFromTwo(r, baseName) ==
    [r EXCEPT !.pc = "slug", !.slug = BaseSlug(baseName), !.counter = 2]

\* entry: let slug = slugify(baseName, {lower, strict}); let counter = 1
EnterEnsureUniqueSlug(r, baseName) ==
    [r EXCEPT !.pc = "slug", !.slug = BaseSlug(baseName), !.counter = 1]

\* the base name the running ensureUniqueSlug was called with
BaseNameOf(r) == Val(r.payload.name)

(***************************************************************************)
(* Reference checks shared by POST and PATCH.                              *)
(***************************************************************************)
\* findMany({ where: { id: { in: ids } } }): the rows found, one per id
FindMany(table, ids) == Range(ids) \cap DOMAIN table

\* found.length !== ids.length
LengthsDiffer(table, ids) == Cardinality(FindMany(table, ids)) # Len(ids)

\* ids.filter((id) => !foundIds.has(id))
MissingIds(table, ids) ==
    LET NotFound(id) == id \notin FindMany(table, ids)
    IN  SelectSeq(ids, NotFound)

\* `ids && ids.length > 0` on an optional list
NonEmpty(ids) == IsSome(ids) /\ Len(Val(ids)) > 0

\* ids?.map((id) => ({ id })) || []
ConnectList(ids) == IF IsSome(ids) THEN Range(Val(ids)) ELSE {}

(***************************************************************************)
(* The @unique and foreign-key constraints of the Space table.             *)
(***************************************************************************)
\* mutant: the Space table without its unique index on slug
SlugTakenUnchecked(slug, id) == FALSE

\* Space_slug_key: a row other than `id` already has this slug
SlugTaken(slug, id) ==
    \E other \in DOMAIN space : other # id /\ space[other].slug = slug

\* mutant: a write that connects whatever ids it is given
TargetsMissingUnchecked(typeIds, categoryIds, featureIds) == FALSE

\* a connect/set target that is not in its table
TargetsMissing(typeIds, categoryIds, featureIds) ==
    \/ ~(typeIds \subseteq DOMAIN spaceType)
    \/ ~(categoryIds \subseteq DOMAIN spaceCategory)
    \/ ~(featureIds \subseteq DOMAIN spaceFeature)

(***************************************************************************)
(* Errors a store call can throw.  A PrismaClientKnownRequestError is      *)
(* named by its code; any other Error by its message.                      *)
(***************************************************************************)
\* P2002 unique constraint, P2025 required record not found, P2003 foreign
\* key constraint, P2024 timed out fetching a connection from the pool
KnownRequestErrors == {"P2002", "P2025", "P2003", "P2024"}
\* messages of errors that are not known request errors
ErrorMessages ==
    {"Can't reach database server",
     "Environment variable not found: DATABASE_URL"}
\* the failures of a write that no constraint of the schema explains
WriteFailures == {"P2024"} \cup ErrorMessages

\* message.includes(part), on the messages of the model
Includes(message, part) ==
    <<message, part>> \in
        {<<"Environment variable not found: DATABASE_URL", "not found">>}

(***************************************************************************)
(* POST /api/spaces                                                        *)
(***************************************************************************)
CreateAfterType(payload) ==
    IF NonEmpty(payload.categoryIds) THEN "c_categories"
    ELSE IF NonEmpty(payload.featureIds) THEN "c_features"
    ELSE "slug"

CreateAfterCategories(payload) ==
    IF NonEmpty(payload.featureIds) THEN "c_features" ELSE "slug"

\* go on at pc `next`; entering ensureUniqueSlug runs its first two lines
CreateGoOn(r, next) ==
    IF next = "slug"
    THEN EnterEnsureUniqueSlug(r, Val(r.payload.name))
    ELSE [r EXCEPT !.pc = next]

\* a POST arrives; the middleware has authenticated `caller`
CreateSpaceRequest(p, caller, payload, maxRequests) ==
    /\ Arrive(p, [IdleReq EXCEPT !.pc = "c_type", !.op = "create",
                                 !.caller = caller, !.payload = payload],
              maxRequests)
    /\ UNCHANGED store

\* prisma.spaceType.findUnique and the 404 that names the type
CreateFindType(p) ==
    /\ req[p].pc = "c_type"
    /\ LET r == Called(req[p], "spaceType.findUnique")
           typeId == Val(r.payload.typeId)
       IN  IF typeId \notin DOMAIN spaceType
           THEN Goto(p, Finish(r, TypeNotFound(typeId)))
           ELSE Goto(p, CreateGoOn(r, CreateAfterType(r.payload)))
    /\ UNCHANGED store

CreateFindCategories(p) ==
    /\ req[p].pc = "c_categories"
    /\ LET r == Called(req[p], "spaceCategory.findMany")
           categoryIds == Val(r.payload.categoryIds)
       IN  IF LengthsDiffer(spaceCategory, categoryIds)
           THEN Goto(p, Finish(r, CategoriesNotFound(
                                    MissingIds(spaceCategory, categoryIds))))
           ELSE Goto(p, CreateGoOn(r, CreateAfterCategories(r.payload)))
    /\ UNCHANGED store

CreateFindFeatures(p) ==
    /\ req[p].pc = "c_features"
    /\ LET r == Called(req[p], "spaceFeature.findMany")
           featureIds == Val(r.payload.featureIds)
       IN  IF LengthsDiffer(spaceFeature, featureIds)
           THEN Goto(p, Finish(r, FeaturesNotFound(
                                    MissingIds(spaceFeature, featureIds))))
           ELSE Goto(p, CreateGoOn(r, "slug"))
    /\ UNCHANGED store

\* spaceData.description || ""
CreateDescription(description) ==
    IF IsSome(description) /\ Val(description) # Null /\ Val(description) # ""
    THEN Val(description)
    ELSE ""

\* mutant: an insert that no constraint can reject
CreateErrorsNone(slug, payload) == {}

\* the errors prisma.space.create can throw for this write, none if it applies
CreateErrors(slug, payload) ==
    {e \in {"P2002"} : SlugTaken(slug, None)}
    \cup
    {e \in {"P2025"} : TargetsMissing({Val(payload.typeId)},
                                      ConnectList(payload.categoryIds),
                                      ConnectList(payload.featureIds))}

\* the catch block of POST: every error is a 500
CreateCatch(error) ==
    Response(500, Message("Failed to create space due to an internal server error.",
                          <<>>), None)

\* prisma.space.create: the row and its join rows in one write, or an error
CreateSpace(p) ==
    /\ req[p].pc = "c_create"
    /\ LET r == Called(req[p], "space.create")
           errors == CreateErrors(r.slug, r.payload)
           id == SpaceId(nextId)
           row == [name |-> Val(r.payload.name),
                   slug |-> r.slug,
                   description |-> CreateDescription(r.payload.description),
                   typeId |-> Val(r.payload.typeId),
                   submittedById |-> r.caller]
       IN  IF errors # {}
           THEN /\ \E error \in errors :
                      Goto(p, Finish([r EXCEPT !.error = error], CreateCatch(error)))
                /\ UNCHANGED store
           ELSE /\ space' = space @@ (id :> row)
                /\ spaceToSpaceCategory' = spaceToSpaceCategory \cup
                       {<<id, c>> : c \in ConnectList(r.payload.categoryIds)}
                /\ spaceToSpaceFeature' = spaceToSpaceFeature \cup
                       {<<id, f>> : f \in ConnectList(r.payload.featureIds)}
                /\ nextId' = nextId + 1
                /\ Goto(p, Finish(r, Response(201, NoMessage, Some(id))))
                /\ UNCHANGED <<spaceType, spaceCategory, spaceFeature>>

\* mutant: the insert is not atomic, the error comes after the row is in
CreateSpaceFailsHalfway(p) ==
    /\ req[p].pc = "c_create"
    /\ \E error \in WriteFailures :
           Goto(p, Finish([Called(req[p], "space.create") EXCEPT !.error = error],
                          CreateCatch(error)))
    /\ space' = space @@
           (SpaceId(nextId) :>
               [name |-> Val(req[p].payload.name), slug |-> req[p].slug,
                description |-> "", typeId |-> Val(req[p].payload.typeId),
                submittedById |-> req[p].caller])
    /\ nextId' = nextId + 1
    /\ UNCHANGED <<spaceType, spaceCategory, spaceFeature,
                   spaceToSpaceCategory, spaceToSpaceFeature>>

\* prisma.space.create throws for a reason outside the schema (the store is
\* unreachable, the pool is exhausted): nothing is written
CreateSpaceFails(p) ==
    /\ req[p].pc = "c_create"
    /\ \E error \in WriteFailures :
           Goto(p, Finish([Called(req[p], "space.create") EXCEPT !.error = error],
                          CreateCatch(error)))
    /\ UNCHANGED store

(***************************************************************************)
(* PATCH /api/spaces/{identifier}                                          *)
(***************************************************************************)
\* prisma.space.findFirst({ where: { OR: [{ id }, { slug }] } }): the rows
\* that match; findFirst returns one of them, in no stated order
FindSpaceByIdentifier(identifier) ==
    {id \in DOMAIN space : id = identifier \/ space[id].slug = identifier}

\* existingSpace.submittedById !== authenticatedUser.id
UpdateForbidden(existingSpace, caller) == existingSpace.submittedById # caller

\* the for loop over the payload's keys: every key is copied, whatever its
\* name, but the three relational keys
CopyScalars(payload) ==
    LET copied == DOMAIN payload \ {"typeId", "categoryIds", "featureIds"}
    IN  [key \in DOMAIN NoUpdateData \cup copied |->
            IF key \in copied THEN payload[key] ELSE NoUpdateData[key]]

\* mutant: every name in the payload counts as a new name
NameChangedAlways(payload, existingSpace) == IsSome(payload.name)

\* payload.name !== undefined && payload.name !== existingSpace.name
NameChanged(payload, existingSpace) ==
    IsSome(payload.name) /\ Val(payload.name) # existingSpace.name

UpdateAfterCategories(payload) ==
    IF NonEmpty(payload.featureIds) THEN "u_features" ELSE "u_update"

UpdateAfterType(payload) ==
    IF NonEmpty(payload.categoryIds) THEN "u_categories"
    ELSE UpdateAfterCategories(payload)

UpdateAfterSlug(payload) ==
    IF IsSome(payload.typeId) THEN "u_type" ELSE UpdateAfterType(payload)

\* updateData.categories = { set: ... } once the category block is passed
\* (a present list that is empty passes it without a lookup), and the same
\* for features
SetRelations(r, next) ==
    LET payload == r.payload
        pastCategories == next \in {"u_features", "u_update"}
        pastFeatures == next = "u_update"
    IN  [r EXCEPT
           !.updateData.categories =
               IF pastCategories /\ IsSome(payload.categoryIds)
               THEN Some(Range(Val(payload.categoryIds))) ELSE @,
           !.updateData.features =
               IF pastFeatures /\ IsSome(payload.featureIds)
               THEN Some(Range(Val(payload.featureIds))) ELSE @]

\* go on at pc `next` with the relation blocks before it done
UpdateGoOn(r, next) == [SetRelations(r, next) EXCEPT !.pc = next]

\* mutant: a request schema that lets unknown keys through
UpdateSpaceRequestSchemaPassthrough(json) == json

\* UpdateSpaceRequestSchema, a z.object: the keys of the schema are kept,
\* each optional, and every other key of the body is stripped
UpdateSpaceRequestSchema(json) == [key \in DOMAIN NoPayload |-> json[key]]

\* a PATCH with body `json` arrives; the middleware has authenticated
\* `caller` and the handler gets the body as the schema parsed it
UpdateSpaceRequest(p, caller, identifier, json, maxRequests) ==
    /\ Arrive(p, [IdleReq EXCEPT !.pc = "u_find", !.op = "update",
                                 !.caller = caller, !.identifier = identifier,
                                 !.json = json,
                                 !.payload = UpdateSpaceRequestSchema(json)],
              maxRequests)
    /\ UNCHANGED store

\* mutant: the type of the payload is validated before the caller is
\* authorized
UpdateFindSpaceTypeFirst(p) ==
    /\ req[p].pc = "u_find"
    /\ LET r == Called(req[p], "space.findFirst")
           found == FindSpaceByIdentifier(r.identifier)
       IN  IF found = {}
           THEN Goto(p, Finish(r, SpaceNotFound))
           ELSE \E id \in found :
                LET existingSpace ==
                        [id |-> id, submittedById |-> space[id].submittedById,
                         name |-> space[id].name, typeId |-> space[id].typeId]
                    copied == [r EXCEPT !.existingSpace = Some(existingSpace),
                                        !.updateData = CopyScalars(r.payload)]
                IN  IF IsSome(r.payload.typeId)
                       /\ Val(r.payload.typeId) \notin DOMAIN spaceType
                    THEN Goto(p, Finish(Called(copied, "spaceType.findUnique"),
                                        TypeNotFound(Val(r.payload.typeId))))
                    ELSE IF UpdateForbidden(existingSpace, r.caller)
                    THEN Goto(p, Finish([r EXCEPT !.existingSpace = Some(existingSpace)],
                             Response(403, Message("Forbidden: You do not have permission to update this space.",
                                                   <<>>), None)))
                    ELSE IF NameChanged(r.payload, existingSpace)
                    THEN Goto(p, EnterEnsureUniqueSlug(copied, Val(r.payload.name)))
                    ELSE Goto(p, UpdateGoOn(copied, UpdateAfterSlug(r.payload)))
    /\ UNCHANGED store

\* the lookup, the 404, the 403, the scalar copy and the name test
UpdateFindSpace(p) ==
    /\ req[p].pc = "u_find"
    /\ LET r == Called(req[p], "space.findFirst")
           found == FindSpaceByIdentifier(r.identifier)
       IN  IF found = {}
           THEN Goto(p, Finish(r, SpaceNotFound))
           ELSE \E id \in found :
                LET existingSpace ==
                        [id |-> id, submittedById |-> space[id].submittedById,
                         name |-> space[id].name, typeId |-> space[id].typeId]
                    copied == [r EXCEPT !.existingSpace = Some(existingSpace),
                                        !.updateData = CopyScalars(r.payload)]
                IN  IF UpdateForbidden(existingSpace, r.caller)
                    THEN Goto(p, Finish([r EXCEPT !.existingSpace = Some(existingSpace)],
                             Response(403, Message("Forbidden: You do not have permission to update this space.",
                                                   <<>>), None)))
                    ELSE IF NameChanged(r.payload, existingSpace)
                    THEN Goto(p, EnterEnsureUniqueSlug(copied, Val(r.payload.name)))
                    ELSE Goto(p, UpdateGoOn(copied, UpdateAfterSlug(r.payload)))
    /\ UNCHANGED store

\* mutant: the name is written before the type is looked up
UpdateFindTypeAfterWrite(p) ==
    /\ req[p].pc = "u_type"
    /\ LET r == Called(req[p], "spaceType.findUnique")
           typeId == Val(r.payload.typeId)
           id == Val(r.existingSpace).id
       IN  /\ IF typeId \notin DOMAIN spaceType
              THEN Goto(p, Finish(r, TypeNotFound(typeId)))
              ELSE Goto(p, UpdateGoOn([r EXCEPT !.updateData.type = Some(typeId)],
                                      UpdateAfterType(r.payload)))
           /\ space' = [space EXCEPT ![id].name =
                           IF IsSome(r.updateData.name)
                           THEN Val(r.updateData.name) ELSE @]
    /\ UNCHANGED <<spaceType, spaceCategory, spaceFeature,
                   spaceToSpaceCategory, spaceToSpaceFeature, nextId>>

UpdateFindType(p) ==
    /\ req[p].pc = "u_type"
    /\ LET r == Called(req[p], "spaceType.findUnique")
           typeId == Val(r.payload.typeId)
       IN  IF typeId \notin DOMAIN spaceType
           THEN Goto(p, Finish(r, TypeNotFound(typeId)))
           ELSE Goto(p, UpdateGoOn([r EXCEPT !.updateData.type = Some(typeId)],
                                   UpdateAfterType(r.payload)))
    /\ UNCHANGED store

UpdateFindCategories(p) ==
    /\ req[p].pc = "u_categories"
    /\ LET r == Called(req[p], "spaceCategory.findMany")
           categoryIds == Val(r.payload.categoryIds)
       IN  IF LengthsDiffer(spaceCategory, categoryIds)
           THEN Goto(p, Finish(r, CategoriesNotFound(
                                    MissingIds(spaceCategory, categoryIds))))
           ELSE Goto(p, UpdateGoOn(r, UpdateAfterCategories(r.payload)))
    /\ UNCHANGED store

UpdateFindFeatures(p) ==
    /\ req[p].pc = "u_features"
    /\ LET r == Called(req[p], "spaceFeature.findMany")
           featureIds == Val(r.payload.featureIds)
       IN  IF LengthsDiffer(spaceFeature, featureIds)
           THEN Goto(p, Finish(r, FeaturesNotFound(
                                    MissingIds(spaceFeature, featureIds))))
           ELSE Goto(p, UpdateGoOn(r, "u_update"))
    /\ UNCHANGED store

\* mutant: the update data goes to the write as copied from the payload
NormalizeDescriptionSkipped(updateData, payload) == updateData

\* "description" in payload && payload.description === null
NormalizeDescription(updateData, payload) ==
    IF IsSome(payload.description) /\ Val(payload.description) = Null
    THEN [updateData EXCEPT !.description = Some("")]
    ELSE updateData

\* mutant: the write takes the row it names for present
UpdateErrorsRowAssumed(id, data) ==
    {e \in {"P2002"} : IsSome(data.slug) /\ SlugTaken(Val(data.slug), id)}
    \cup
    {e \in {"P2025"} :
        TargetsMissing(IF IsSome(data.type) THEN {Val(data.type)} ELSE {},
                       IF IsSome(data.categories) THEN Val(data.categories) ELSE {},
                       IF IsSome(data.features) THEN Val(data.features) ELSE {})}

\* the errors prisma.space.update can throw for this write, none if it applies
UpdateErrors(id, data) ==
    IF id \notin DOMAIN space THEN {"P2025"}
    ELSE {e \in {"P2002"} : IsSome(data.slug) /\ SlugTaken(Val(data.slug), id)}
         \cup
         {e \in {"P2025"} :
             TargetsMissing(IF IsSome(data.type) THEN {Val(data.type)} ELSE {},
                            IF IsSome(data.categories) THEN Val(data.categories) ELSE {},
                            IF IsSome(data.features) THEN Val(data.features) ELSE {})}

\* the catch block of PATCH: a PrismaClientKnownRequestError is mapped by its
\* code, any other Error by what its message includes
UpdateCatch(error) ==
    IF error \in KnownRequestErrors
    THEN IF error = "P2002"
         THEN Response(409, Message("A space with this name or slug already exists.", <<>>), None)
         ELSE IF error = "P2025"
         THEN Response(404, Message("One or more related records (type, category, feature) not found.",
                                    <<>>), None)
         ELSE Response(500, Message("Database operation failed unexpectedly.", <<>>), None)
    ELSE IF Includes(error, "Forbidden")
    THEN Response(403, Message(error, <<>>), None)
    ELSE IF Includes(error, "not found")
    THEN Response(404, Message(error, <<>>), None)
    ELSE IF Includes(error, "Validation error") \/ Includes(error, "Invalid input")
    THEN Response(400, Message("Invalid input data provided.", <<>>), None)
    ELSE Response(500, Message("An unexpected server error occurred.", <<>>), None)

\* the row after prisma.space.update({ where: { id }, data }): each column
\* that data names gets its value, typeId the type that data connects
UpdatedRow(row, data) ==
    [column \in DOMAIN row |->
        IF column = "typeId" /\ IsSome(data.type) THEN Val(data.type)
        ELSE IF column \in DOMAIN data /\ IsSome(data[column])
        THEN Val(data[column])
        ELSE row[column]]

\* mutant: an absent relation key treated like a present empty list
SetJoinRowsAbsentClears(joinRows, id, set) ==
    {q \in joinRows : q[1] # id}
    \cup {<<id, b>> : b \in IF IsSome(set) THEN Val(set) ELSE {}}

\* the join rows of Space id after `set`: absent leaves them, present replaces
SetJoinRows(joinRows, id, set) ==
    IF IsSome(set)
    THEN {q \in joinRows : q[1] # id} \cup {<<id, b>> : b \in Val(set)}
    ELSE joinRows

\* prisma.space.update on the id found by the lookup
\* mutant: the write names its row by the identifier of the request
WhereIdentifier(r) ==
    IF FindSpaceByIdentifier(r.identifier) = {} THEN <<>>
    ELSE CHOOSE id \in FindSpaceByIdentifier(r.identifier) : TRUE

\* where: { id: existingSpace.id }
WhereId(r) == Val(r.existingSpace).id

UpdateSpace(p) ==
    /\ req[p].pc = "u_update"
    /\ LET r == Called(req[p], "space.update")
           id == WhereId(r)
           data == NormalizeDescription(r.updateData, r.payload)
           errors == UpdateErrors(id, data)
       IN  IF errors # {}
           THEN /\ \E error \in errors :
                      Goto(p, Finish([r EXCEPT !.error = error], UpdateCatch(error)))
                /\ UNCHANGED store
           ELSE /\ space' = [space EXCEPT ![id] = UpdatedRow(@, data)]
                /\ spaceToSpaceCategory' =
                       SetJoinRows(spaceToSpaceCategory, id, data.categories)
                /\ spaceToSpaceFeature' =
                       SetJoinRows(spaceToSpaceFeature, id, data.features)
                /\ Goto(p, Finish([r EXCEPT !.updateData = data],
                                  Response(200, NoMessage, Some(id))))
                /\ UNCHANGED <<spaceType, spaceCategory, spaceFeature, nextId>>

\* prisma.space.update throws for a reason outside the schema: nothing is
\* written
UpdateSpaceFails(p) ==
    /\ req[p].pc = "u_update"
    /\ \E error \in WriteFailures :
           Goto(p, Finish([Called(req[p], "space.update") EXCEPT !.error = error],
                          UpdateCatch(error)))
    /\ UNCHANGED store

(***************************************************************************)
(* ensureUniqueSlug, one turn of its loop per step                         *)
(***************************************************************************)
\* mutant: PATCH drops the slug the generator returned
ReturnSlugDropped(r) ==
    IF r.op = "create"
    THEN [r EXCEPT !.pc = "c_create"]
    ELSE UpdateGoOn(r, UpdateAfterSlug(r.payload))

\* `return slug`: POST goes on to its create, PATCH stores the slug in
\* updateData and goes on to its reference checks
ReturnSlug(r) ==
    IF r.op = "create"
    THEN [r EXCEPT !.pc = "c_create"]
    ELSE UpdateGoOn([r EXCEPT !.updateData.slug = Some(r.slug)],
                    UpdateAfterSlug(r.payload))

EnsureUniqueSlug(p) ==
    /\ req[p].pc = "slug"
    /\ LET r == Called(req[p], "space.findUnique")
           existingSpace == FindSpaceBySlug(r.slug)
       IN  IF existingSpace = {}
           THEN Goto(p, ReturnSlug(r))
           ELSE Goto(p, [r EXCEPT
                           !.slug = SuffixedSlug(BaseNameOf(r), r.counter),
                           !.counter = @ + 1])
    /\ UNCHANGED store

(***************************************************************************)
(* DELETE /api/spaces/{id}                                                 *)
(***************************************************************************)
\* mutant: DELETE without its authorization check
DeleteForbiddenNever(spaceToDelete, caller) == FALSE

\* spaceToDelete.submittedById !== authenticatedUser.id
DeleteForbidden(spaceToDelete, caller) == spaceToDelete.submittedById # caller

DeleteSpaceRequest(p, caller, id, maxRequests) ==
    /\ Arrive(p, [IdleReq EXCEPT !.pc = "d_find", !.op = "delete",
                                 !.caller = caller, !.identifier = id],
              maxRequests)
    /\ UNCHANGED store

\* prisma.space.findUnique({ where: { id } }), the 404 and the 403
DeleteFindSpace(p) ==
    /\ req[p].pc = "d_find"
    /\ LET r == Called(req[p], "space.findUnique")
           id == r.identifier
       IN  IF id \notin DOMAIN space
           THEN Goto(p, Finish(r, SpaceNotFound))
           ELSE LET spaceToDelete ==
                        [id |-> id, submittedById |-> space[id].submittedById,
                         name |-> space[id].name, typeId |-> space[id].typeId]
                    looked == [r EXCEPT !.existingSpace = Some(spaceToDelete)]
                IN  IF DeleteForbidden(spaceToDelete, r.caller)
                    THEN Goto(p, Finish(looked,
                             Response(403, Message("Forbidden: You do not have permission to delete this space.",
                                                   <<>>), None)))
                    ELSE Goto(p, [looked EXCEPT !.pc = "d_delete"])
    /\ UNCHANGED store

\* mutant: the catch block of DELETE without the case for P2025
DeleteCatchUnmapped(error) ==
    Response(500, Message("Failed to delete space due to an internal server error.",
                          <<>>), None)

\* the catch block of DELETE
DeleteCatch(error) ==
    IF error = "P2025" THEN SpaceNotFound
    ELSE Response(500, Message("Failed to delete space due to an internal server error.",
                               <<>>), None)

\* mutant: join-table foreign keys without ON DELETE CASCADE
DeleteSpaceKeepsJoinRows(p) ==
    /\ req[p].pc = "d_delete"
    /\ LET r == Called(req[p], "space.delete")
           id == r.identifier
       IN  IF id \notin DOMAIN space
           THEN /\ Goto(p, Finish([r EXCEPT !.error = "P2025"], DeleteCatch("P2025")))
                /\ UNCHANGED store
           ELSE /\ space' = [i \in DOMAIN space \ {id} |-> space[i]]
                /\ Goto(p, Finish(r, Response(204, NoMessage, None)))
                /\ UNCHANGED <<spaceType, spaceCategory, spaceFeature, nextId,
                               spaceToSpaceCategory, spaceToSpaceFeature>>

\* prisma.space.delete; the join rows go by ON DELETE CASCADE
DeleteSpace(p) ==
    /\ req[p].pc = "d_delete"
    /\ LET r == Called(req[p], "space.delete")
           id == r.identifier
       IN  IF id \notin DOMAIN space
           THEN /\ Goto(p, Finish([r EXCEPT !.error = "P2025"], DeleteCatch("P2025")))
                /\ UNCHANGED store
           ELSE /\ space' = [i \in DOMAIN space \ {id} |-> space[i]]
                /\ spaceToSpaceCategory' = {q \in spaceToSpaceCategory : q[1] # id}
                /\ spaceToSpaceFeature' = {q \in spaceToSpaceFeature : q[1] # id}
                /\ Goto(p, Finish(r, Response(204, NoMessage, None)))
                /\ UNCHANGED <<spaceType, spaceCategory, spaceFeature, nextId>>

(***************************************************************************)
(* DELETE /api/types/{id}, /api/categories/{id}, /api/features/{id}        *)
(***************************************************************************)
\* a DELETE of a taxonomy row arrives; pc names the handler
DeleteTaxonomyRequest(p, pc, op, id, maxRequests) ==
    /\ Arrive(p, [IdleReq EXCEPT !.pc = pc, !.op = op, !.identifier = Some(id)],
              maxRequests)
    /\ UNCHANGED store
DeleteTypeRequest(p, id, maxRequests) ==
    DeleteTaxonomyRequest(p, "dt_find", "deleteType", id, maxRequests)
DeleteCategoryRequest(p, id, maxRequests) ==
    DeleteTaxonomyRequest(p, "dc_find", "deleteCategory", id, maxRequests)
DeleteFeatureRequest(p, id, maxRequests) ==
    DeleteTaxonomyRequest(p, "df_find", "deleteFeature", id, maxRequests)

\* findUnique({ where: { id } }) and the 404 of a taxonomy DELETE
DeleteTaxonomyFind(p, call, table, text, next) ==
    LET r == Called(req[p], call)
    IN  IF Val(r.identifier) \notin DOMAIN table
        THEN Goto(p, Finish(r, Response(404, Message(text, <<>>), None)))
        ELSE Goto(p, [r EXCEPT !.pc = next])

\* the catch block of a taxonomy DELETE: every error is a 500
DeleteTaxonomyCatch(text) == Response(500, Message(text, <<>>), None)

\* the table without the row id
Without(table, id) == [i \in DOMAIN table \ {id} |-> table[i]]

\* mutant: Space_typeId_fkey without ON DELETE RESTRICT
TypeReferencedUnchecked(id) == FALSE

\* Space_typeId_fkey: a Space references the type
TypeReferenced(id) == \E i \in DOMAIN space : space[i].typeId = id

DeleteTypeFind(p) ==
    /\ req[p].pc = "dt_find"
    /\ DeleteTaxonomyFind(p, "spaceType.findUnique", spaceType,
                          "Space type not found.", "dt_delete")
    /\ UNCHANGED store

\* prisma.spaceType.delete: refused while a Space references the type
DeleteType(p) ==
    /\ req[p].pc = "dt_delete"
    /\ LET r == Called(req[p], "spaceType.delete")
           id == Val(r.identifier)
           error == IF id \notin DOMAIN spaceType THEN "P2025"
                    ELSE IF TypeReferenced(id) THEN "P2003" ELSE ""
       IN  IF error # ""
           THEN /\ Goto(p, Finish([r EXCEPT !.error = error],
                                  DeleteTaxonomyCatch("Failed to delete space type.")))
                /\ UNCHANGED store
           ELSE /\ spaceType' = Without(spaceType, id)
                /\ Goto(p, Finish(r, Response(200,
                          Message("Space type deleted successfully.", <<>>), None)))
                /\ UNCHANGED <<space, spaceCategory, spaceFeature,
                               spaceToSpaceCategory, spaceToSpaceFeature, nextId>>

DeleteCategoryFind(p) ==
    /\ req[p].pc = "dc_find"
    /\ DeleteTaxonomyFind(p, "spaceCategory.findUnique", spaceCategory,
                          "Space category not found.", "dc_delete")
    /\ UNCHANGED store

\* prisma.spaceCategory.delete; its join rows go by ON DELETE CASCADE
DeleteCategory(p) ==
    /\ req[p].pc = "dc_delete"
    /\ LET r == Called(req[p], "spaceCategory.delete")
           id == Val(r.identifier)
       IN  IF id \notin DOMAIN spaceCategory
           THEN /\ Goto(p, Finish([r EXCEPT !.error = "P2025"],
                                  DeleteTaxonomyCatch("Failed to delete space category.")))
                /\ UNCHANGED store
           ELSE /\ spaceCategory' = Without(spaceCategory, id)
                /\ spaceToSpaceCategory' = {q \in spaceToSpaceCategory : q[2] # id}
                /\ Goto(p, Finish(r, Response(200,
                          Message("Space category deleted successfully.", <<>>), None)))
                /\ UNCHANGED <<space, spaceType, spaceFeature,
                               spaceToSpaceFeature, nextId>>

DeleteFeatureFind(p) ==
    /\ req[p].pc = "df_find"
    /\ DeleteTaxonomyFind(p, "spaceFeature.findUnique", spaceFeature,
                          "Space feature not found.", "df_delete")
    /\ UNCHANGED store

\* prisma.spaceFeature.delete; its join rows go by ON DELETE CASCADE
DeleteFeature(p) ==
    /\ req[p].pc = "df_delete"
    /\ LET r == Called(req[p], "spaceFeature.delete")
           id == Val(r.identifier)
       IN  IF id \notin DOMAIN spaceFeature
           THEN /\ Goto(p, Finish([r EXCEPT !.error = "P2025"],
                                  DeleteTaxonomyCatch("Failed to delete space feature.")))
                /\ UNCHANGED store
           ELSE /\ spaceFeature' = Without(spaceFeature, id)
                /\ spaceToSpaceFeature' = {q \in spaceToSpaceFeature : q[2] # id}
                /\ Goto(p, Finish(r, Response(200,
                          Message("Space feature deleted successfully.", <<>>), None)))
                /\ UNCHANGED <<space, spaceType, spaceCategory,
                               spaceToSpaceCategory, nextId>>

(***************************************************************************)
(* POST and PATCH of /api/types, /api/categories and /api/features         *)
(***************************************************************************)
\* cuid() for a taxonomy row: a fresh id, unlike the ids of the seeded rows
TaxonomyId(n) == "n" \o ToString(n)

\* SpaceType_name_key, SpaceCategory_name_key, SpaceFeature_name_key: a row
\* other than `id` already has this name
NameTaken(table, name, id) ==
    \E other \in DOMAIN table : other # id /\ table[other] = name

\* the catch block of a taxonomy POST or PATCH: every error is a 500
TaxonomyCatch(text) == Response(500, Message(text, <<>>), None)

\* a POST of a taxonomy row arrives; pc names the handler
CreateTaxonomyRequest(p, pc, op, name, maxRequests) ==
    /\ Arrive(p, [IdleReq EXCEPT !.pc = pc, !.op = op, !.payload.name = Some(name)],
              maxRequests)
    /\ UNCHANGED store
CreateTypeRequest(p, name, maxRequests) ==
    CreateTaxonomyRequest(p, "ct_create", "createType", name, maxRequests)
CreateCategoryRequest(p, name, maxRequests) ==
    CreateTaxonomyRequest(p, "cc_create", "createCategory", name, maxRequests)
CreateFeatureRequest(p, name, maxRequests) ==
    CreateTaxonomyRequest(p, "cf_create", "createFeature", name, maxRequests)

\* the request of p after create({ data: payload }) on a table: the error of
\* the unique index, or the 201 with the new id
CreatedTaxonomy(r, table, text) ==
    IF NameTaken(table, Val(r.payload.name), "")
    THEN Finish([r EXCEPT !.error = "P2002"], TaxonomyCatch(text))
    ELSE Finish(r, Response(201, NoMessage, Some(TaxonomyId(nextId))))

\* the table after the request r of a create or update has been answered
TaxonomyWritten(r, table, id) ==
    IF r.error # "" \/ r.payload.name = None THEN table
    ELSE [i \in DOMAIN table \cup {id} |->  Val(r.payload.name)] @@ table

\* prisma.spaceType.create
CreateType(p) ==
    /\ req[p].pc = "ct_create"
    /\ LET r == CreatedTaxonomy(Called(req[p], "spaceType.create"), spaceType,
                                "Failed to create space type.")
       IN  /\ Goto(p, r)
           /\ spaceType' = TaxonomyWritten(r, spaceType, TaxonomyId(nextId))
           /\ nextId' = IF r.error = "" THEN nextId + 1 ELSE nextId
    /\ UNCHANGED <<space, spaceCategory, spaceFeature,
                   spaceToSpaceCategory, spaceToSpaceFeature>>

\* prisma.spaceCategory.create
CreateCategory(p) ==
    /\ req[p].pc = "cc_create"
    /\ LET r == CreatedTaxonomy(Called(req[p], "spaceCategory.create"),
                                spaceCategory, "Failed to create space category.")
       IN  /\ Goto(p, r)
           /\ spaceCategory' = TaxonomyWritten(r, spaceCategory, TaxonomyId(nextId))
           /\ nextId' = IF r.error = "" THEN nextId + 1 ELSE nextId
    /\ UNCHANGED <<space, spaceType, spaceFeature,
                   spaceToSpaceCategory, spaceToSpaceFeature>>

\* prisma.spaceFeature.create
CreateFeature(p) ==
    /\ req[p].pc = "cf_create"
    /\ LET r == CreatedTaxonomy(Called(req[p], "spaceFeature.create"),
                                spaceFeature, "Failed to create space feature.")
       IN  /\ Goto(p, r)
           /\ spaceFeature' = TaxonomyWritten(r, spaceFeature, TaxonomyId(nextId))
           /\ nextId' = IF r.error = "" THEN nextId + 1 ELSE nextId
    /\ UNCHANGED <<space, spaceType, spaceCategory,
                   spaceToSpaceCategory, spaceToSpaceFeature>>

\* a PATCH of a taxonomy row arrives; every key of the payload is optional
UpdateTaxonomyRequest(p, pc, op, id, name, maxRequests) ==
    /\ Arrive(p, [IdleReq EXCEPT !.pc = pc, !.op = op, !.identifier = Some(id),
                                 !.payload.name = name],
              maxRequests)
    /\ UNCHANGED store
UpdateTypeRequest(p, id, name, maxRequests) ==
    UpdateTaxonomyRequest(p, "ut_find", "updateType", id, name, maxRequests)
UpdateCategoryRequest(p, id, name, maxRequests) ==
    UpdateTaxonomyRequest(p, "uc_find", "updateCategory", id, name, maxRequests)
UpdateFeatureRequest(p, id, name, maxRequests) ==
    UpdateTaxonomyRequest(p, "uf_find", "updateFeature", id, name, maxRequests)

\* the request of p after update({ where: { id }, data: payload }) on a
\* table: the error of a missing row or of the unique index, or the 200
UpdatedTaxonomy(r, table, text) ==
    LET id == Val(r.identifier)
        error == IF id \notin DOMAIN table THEN "P2025"
                 ELSE IF IsSome(r.payload.name)
                         /\ NameTaken(table, Val(r.payload.name), id)
                 THEN "P2002" ELSE ""
    IN  IF error # ""
        THEN Finish([r EXCEPT !.error = error], TaxonomyCatch(text))
        ELSE Finish(r, Response(200, NoMessage, Some(id)))

UpdateTypeFind(p) ==
    /\ req[p].pc = "ut_find"
    /\ DeleteTaxonomyFind(p, "spaceType.findUnique", spaceType,
                          "Space type not found.", "ut_update")
    /\ UNCHANGED store

\* prisma.spaceType.update
UpdateType(p) ==
    /\ req[p].pc = "ut_update"
    /\ LET r == UpdatedTaxonomy(Called(req[p], "spaceType.update"), spaceType,
                                "Failed to update space type.")
       IN  /\ Goto(p, r)
           /\ spaceType' = TaxonomyWritten(r, spaceType, Val(r.identifier))
    /\ UNCHANGED <<space, spaceCategory, spaceFeature,
                   spaceToSpaceCategory, spaceToSpaceFeature, nextId>>

UpdateCategoryFind(p) ==
    /\ req[p].pc = "uc_find"
    /\ DeleteTaxonomyFind(p, "spaceCategory.findUnique", spaceCategory,
                          "Space category not found.", "uc_update")
    /\ UNCHANGED store

\* prisma.spaceCategory.update
UpdateCategory(p) ==
    /\ req[p].pc = "uc_update"
    /\ LET r == UpdatedTaxonomy(Called(req[p], "spaceCategory.update"),
                                spaceCategory, "Failed to update space category.")
       IN  /\ Goto(p, r)
           /\ spaceCategory' = TaxonomyWritten(r, spaceCategory, Val(r.identifier))
    /\ UNCHANGED <<space, spaceType, spaceFeature,
                   spaceToSpaceCategory, spaceToSpaceFeature, nextId>>

UpdateFeatureFind(p) ==
    /\ req[p].pc = "uf_find"
    /\ DeleteTaxonomyFind(p, "spaceFeature.findUnique", spaceFeature,
                          "Space feature not found.", "uf_update")
    /\ UNCHANGED store

\* prisma.spaceFeature.update
UpdateFeature(p) ==
    /\ req[p].pc = "uf_update"
    /\ LET r == UpdatedTaxonomy(Called(req[p], "spaceFeature.update"),
                                spaceFeature, "Failed to update space feature.")
       IN  /\ Goto(p, r)
           /\ spaceFeature' = TaxonomyWritten(r, spaceFeature, Val(r.identifier))
    /\ UNCHANGED <<space, spaceType, spaceCategory,
                   spaceToSpaceCategory, spaceToSpaceFeature, nextId>>

\* the response is sent and the process is free for the next request
Respond(p) ==
    /\ req[p].pc = "done"
    /\ Goto(p, IdleReq)
    /\ UNCHANGED store

(***************************************************************************)
(* The payloads and identifiers requests are drawn from.                   *)
(***************************************************************************)
Options(S) == {None} \cup {Some(v) : v \in S}

Payload(name, typeId, categoryIds, featureIds, description) ==
    [name |-> name, typeId |-> typeId, categoryIds |-> categoryIds,
     featureIds |-> featureIds, description |-> description]

\* what a caller can put in the path: the id of a Space, generated or not
\* yet, or the slug of one
SpaceIds(maxRequests) == {SpaceId(n) : n \in 1..maxRequests}
Identifiers(maxRequests) ==
    SpaceIds(maxRequests) \cup {space[id].slug : id \in DOMAIN space}

\* the steps of the handlers
Step(p) ==
    \/ CreateFindType(p)
    \/ CreateFindCategories(p)
    \/ CreateFindFeatures(p)
    \/ EnsureUniqueSlug(p)
    \/ CreateSpace(p)
    \/ UpdateFindSpace(p)
    \/ UpdateFindType(p)
    \/ UpdateFindCategories(p)
    \/ UpdateFindFeatures(p)
    \/ UpdateSpace(p)
    \/ DeleteFindSpace(p)
    \/ DeleteSpace(p)
    \/ Respond(p)

\* a request of any kind arrives
Request(p, creators, callers, creates, updates, deleteIds, maxRequests) ==
    \E caller \in callers :
        \/ \E payload \in creates :
               /\ caller \in creators
               /\ CreateSpaceRequest(p, caller, payload, maxRequests)
        \/ \E identifier \in Identifiers(maxRequests), payload \in updates :
               UpdateSpaceRequest(p, caller, identifier, payload, maxRequests)
        \/ \E id \in deleteIds :
               DeleteSpaceRequest(p, caller, id, maxRequests)

(***************************************************************************)
(* Spec: requests of all processes interleave.  All come from one caller;  *)
(* the payloads vary the name, and one more payload of each kind carries   *)
(* every relation; deletes name a Space by id.                             *)
(***************************************************************************)
CreatePayloads ==
    {Payload(Some(n), Some("t1"), None, None, None) : n \in Names}
    \cup {Payload(Some(<<"f">>), Some("t1"), Some(<<"c1">>), Some(<<"f1">>), None)}
UpdatePayloads ==
    {Payload(Some(n), None, None, None, None) : n \in Names}
    \cup {Payload(None, Some("t1"), Some(<<"c2">>), Some(<<"f1">>), None)}

Next ==
    \E p \in Procs :
        \/ Request(p, {"u1"}, {"u1"}, CreatePayloads, UpdatePayloads,
                   SpaceIds(MaxRequests), MaxRequests)
        \/ Step(p)

Spec == Init /\ [][Next]_vars

(***************************************************************************)
(* SpecSeq: a request arrives only when no other request is running.       *)
(***************************************************************************)
NoRequestRunning == \A q \in Procs : req[q].pc = "idle"

\* a request body with keys that the schema does not have
WithKeys(payload, id, submittedById) ==
    [key \in DOMAIN payload \cup {"id", "submittedById"} |->
        IF key = "id" THEN id
        ELSE IF key = "submittedById" THEN submittedById
        ELSE payload[key]]

\* the update bodies of Spec, and bodies that name another id and Author
UpdatePayloadsSeq ==
    UpdatePayloads
    \cup {WithKeys(Payload(name, None, None, None, None),
                   Some(SpaceId(MaxRequestsSeq)), Some("u2")) :
             name \in {None, Some(<<"F">>)}}

NextSeq ==
    \E p \in Procs :
        \/ /\ NoRequestRunning
           /\ Request(p, Users, Users, CreatePayloads, UpdatePayloadsSeq,
                      Identifiers(MaxRequestsSeq), MaxRequestsSeq)
        \/ Step(p)

SpecSeq == Init /\ [][NextSeq]_vars

(***************************************************************************)
(* SpecPayload: one request at a time, with payloads that vary every key:  *)
(* lists that repeat an id or mix existing and missing ids, a missing      *)
(* type, and every way to give or omit a description.                      *)
(***************************************************************************)
CategoryIdLists ==
    {<<>>, <<"c2">>, <<"c1", "c1">>, <<"cx", "c1", "cy">>}
FeatureIdLists == {<<>>, <<"f1">>, <<"fx">>}
Descriptions == {Null, "d"}
Relations ==
    [typeId : Options({"t1", "tx"}), categoryIds : Options(CategoryIdLists),
     featureIds : Options(FeatureIdLists)]
CreatePayloadsRich ==
    [name : {Some(<<"f">>)}, typeId : {Some("t1"), Some("tx")},
     categoryIds : Options(CategoryIdLists \cup {<<"c1">>}),
     featureIds : Options(FeatureIdLists),
     description : Options(Descriptions)]
\* every combination of the relational keys, alone and with a new name and
\* a null description; and every description, alone and with a new name
UpdatePayloadsRich ==
    {Payload(None, r.typeId, r.categoryIds, r.featureIds, None) : r \in Relations}
    \cup {Payload(Some(<<"F">>), r.typeId, r.categoryIds, r.featureIds, Some(Null)) :
            r \in Relations}
    \cup [name : Options({<<"F">>}), typeId : {None}, categoryIds : {None},
          featureIds : {None}, description : Options(Descriptions)]

NextPayload ==
    \E p \in Procs :
        \/ /\ NoRequestRunning
           /\ Request(p, {"u1"}, Users, CreatePayloadsRich, UpdatePayloadsRich,
                      Identifiers(MaxRequestsPayload), MaxRequestsPayload)
        \/ Step(p)

SpecPayload == Init /\ [][NextPayload]_vars

(***************************************************************************)
(* SpecRace: requests interleave with deletions of types, categories and   *)
(* features, and a write can fail for a reason outside the schema.  One    *)
(* create payload and one update payload carry every relation; the update  *)
(* also renames, to the name whose base slug is the first suffixed slug of *)
(* the create's name.                                                      *)
(***************************************************************************)
CreatePayloadsRace ==
    {Payload(Some(<<"f">>), Some("t1"), Some(<<"c1">>), Some(<<"f1">>), None)}
UpdatePayloadsRace ==
    {Payload(Some(<<"f", " ", "1">>), Some("t2"), Some(<<"c2">>), Some(<<"f1">>),
             None)}

\* the steps of the taxonomy handlers and the failing writes
StepRace(p) ==
    \/ DeleteTypeFind(p)
    \/ DeleteType(p)
    \/ DeleteCategoryFind(p)
    \/ DeleteCategory(p)
    \/ DeleteFeatureFind(p)
    \/ DeleteFeature(p)
    \/ CreateSpaceFails(p)
    \/ UpdateSpaceFails(p)

\* a DELETE of a taxonomy row arrives
RequestRace(p, maxRequests) ==
    \/ \E id \in {"t1", "t2"} : DeleteTypeRequest(p, id, maxRequests)
    \/ \E id \in {"c1", "c2"} : DeleteCategoryRequest(p, id, maxRequests)
    \/ \E id \in {"f1"} : DeleteFeatureRequest(p, id, maxRequests)

NextRace ==
    \E p \in Procs :
        \/ Request(p, {"u1"}, {"u1"}, CreatePayloadsRace, UpdatePayloadsRace,
                   SpaceIds(MaxRequestsRace), MaxRequestsRace)
        \/ RequestRace(p, MaxRequestsRace)
        \/ Step(p)
        \/ StepRace(p)

SpecRace == Init /\ [][NextRace]_vars

(***************************************************************************)
(* SpecTaxonomy: creations and renames of types, categories and features   *)
(* interleave, with names that are used by a row and names that are not.   *)
(***************************************************************************)
TaxonomyNames == {"Park", "Historical", "Wi-Fi", "Garden"}

\* the steps of the taxonomy POST and PATCH handlers
StepTaxonomy(p) ==
    \/ CreateType(p)
    \/ CreateCategory(p)
    \/ CreateFeature(p)
    \/ UpdateTypeFind(p)
    \/ UpdateType(p)
    \/ UpdateCategoryFind(p)
    \/ UpdateCategory(p)
    \/ UpdateFeatureFind(p)
    \/ UpdateFeature(p)
    \/ Respond(p)

\* a POST or PATCH of a taxonomy row arrives
RequestTaxonomy(p, maxRequests) ==
    \E name \in TaxonomyNames :
        \/ CreateTypeRequest(p, name, maxRequests)
        \/ CreateCategoryRequest(p, name, maxRequests)
        \/ CreateFeatureRequest(p, name, maxRequests)
        \/ \E id \in {"t1", "t2", "tx"}, n \in {None, Some(name)} :
               UpdateTypeRequest(p, id, n, maxRequests)
        \/ \E id \in {"c1", "c2"}, n \in {None, Some(name)} :
               UpdateCategoryRequest(p, id, n, maxRequests)
        \/ \E id \in {"f1", TaxonomyId(1)}, n \in {None, Some(name)} :
               UpdateFeatureRequest(p, id, n, maxRequests)

NextTaxonomy ==
    \E p \in Procs :
        \/ RequestTaxonomy(p, MaxRequestsTaxonomy)
        \/ StepTaxonomy(p)

SpecTaxonomy == Init /\ [][NextTaxonomy]_vars

(***************************************************************************)
(* SpecIds: one request at a time, with a display name that reads like the *)
(* id of a Space: ids are in every response, and a name may be any string. *)
(***************************************************************************)
\* display names: "f", and the text of the first id
NamesIds == {<<"f">>, SpaceId(1)}
CreatePayloadsIds ==
    {Payload(Some(n), Some("t1"), Some(<<"c1">>), Some(<<"f1">>), None) :
        n \in NamesIds}
UpdatePayloadsIds ==
    {Payload(Some(n), Some("t2"), Some(<<"c2">>), Some(<<"f1">>), None) :
        n \in NamesIds}

NextIds ==
    \E p \in Procs :
        \/ /\ NoRequestRunning
           /\ Request(p, {"u1"}, {"u1"}, CreatePayloadsIds, UpdatePayloadsIds,
                      Identifiers(MaxRequestsIds), MaxRequestsIds)
        \/ Step(p)

SpecIds == Init /\ [][NextIds]_vars

(***************************************************************************)
(* SpecLive: create requests interleave, and every request that can take   *)
(* a step eventually takes one: each awaited query resolves, and the event *)
(* loop resumes the handler that waits for it.                             *)
(***************************************************************************)
\* names whose candidates collide: "f 1" has the slug "f-1", the second
\* candidate of "f"
CreatePayloadsLive ==
    {Payload(Some(n), Some("t1"), Some(<<"c1">>), Some(<<"f1">>), None) :
        n \in {<<"f">>, <<"f", " ", "1">>}}

\* the steps of POST /api/spaces
StepLive(p) ==
    \/ CreateFindType(p)
    \/ CreateFindCategories(p)
    \/ CreateFindFeatures(p)
    \/ EnsureUniqueSlug(p)
    \/ CreateSpace(p)
    \/ Respond(p)

NextLive ==
    \E p \in Procs :
        \/ \E payload \in CreatePayloadsLive :
               CreateSpaceRequest(p, "u1", payload, MaxRequestsLive)
        \/ StepLive(p)

SpecLive ==
    Init /\ [][NextLive]_vars /\ \A p \in Procs : WF_vars(StepLive(p))

(***************************************************************************)
(* Properties.                                                             *)
(***************************************************************************)
Done(p) == req[p].pc = "done"
Code(p) == req[p].response.code
\* process p takes a step
Steps(p) == req'[p] # req[p]
\* Spaces whose names have the same base slug
SameBase(a, b) == BaseSlug(space[a].name) = BaseSlug(space[b].name)
\* a create request whose payload passes every reference check
ValidCreate(p) ==
    /\ req[p].op = "create"
    /\ ~TargetsMissing({Val(req[p].payload.typeId)},
                       ConnectList(req[p].payload.categoryIds),
                       ConnectList(req[p].payload.featureIds))
\* the requests of p and q ran at the same time
Concurrent(p, q) == p \in req[q].overlaps /\ q \in req[p].overlaps
\* two concurrent create requests with the same name, both answered
BothCreated(p, q) ==
    /\ p # q /\ Done(p) /\ Done(q) /\ Concurrent(p, q)
    /\ ValidCreate(p) /\ ValidCreate(q)
    /\ req[p].payload.name = req[q].payload.name

\* C1: in every reachable state, whatever the interleaving of create, update
\* (renames included) and delete requests, no two distinct Spaces have the
\* same slug.
C1_SlugUnique ==
    \A a, b \in DOMAIN space : a # b => space[a].slug # space[b].slug

\* C1 witness: two Spaces with the same base slug are stored and a request
\* has had its write rejected by the unique index.
C1_Witness ==
    /\ \E a, b \in DOMAIN space : a # b /\ SameBase(a, b)
    /\ \E p \in Procs : Done(p) /\ req[p].error = "P2002"

\* C2 as claimed: two create requests with the same name that ran
\* concurrently both end with a persisted Space, and the two slugs differ.
C2_BothPersist ==
    \A p, q \in Procs :
        BothCreated(p, q) =>
            /\ Code(p) = 201 /\ Code(q) = 201
            /\ Val(req[p].response.body) \in DOMAIN space
            /\ Val(req[q].response.body) \in DOMAIN space
            /\ req[p].slug # req[q].slug

\* C2 amended: of two create requests with the same name, at least one ends
\* with a persisted Space; one whose insert lost the race for the slug ends
\* with an error response and persists nothing (the slug stays with the one
\* row of the winner); if both persist, the slugs differ; and no duplicate
\* slug is ever persisted.
C2_OneOrBothPersist ==
    /\ \A p, q \in Procs :
        BothCreated(p, q) =>
            /\ Code(p) = 201 \/ Code(q) = 201
            /\ Code(p) # 201 =>
                  /\ req[p].error = "P2002" /\ Code(p) >= 400
                  /\ req[p].response.body = None
                  /\ Cardinality(FindSpaceBySlug(req[p].slug)) = 1
            /\ (Code(p) = 201 /\ Code(q) = 201) =>
                  /\ req[p].response.body # req[q].response.body
                  /\ {Val(req[p].response.body), Val(req[q].response.body)}
                        \subseteq DOMAIN space
                  /\ space[Val(req[p].response.body)].slug = req[p].slug
                  /\ space[Val(req[q].response.body)].slug = req[q].slug
                  /\ req[p].slug # req[q].slug
    /\ \A a, b \in DOMAIN space : a # b => space[a].slug # space[b].slug

\* C2 witness: two create requests with the same name have raced; one has
\* its Space and the other an error from the unique index.
C2_Witness ==
    \E p, q \in Procs :
        /\ BothCreated(p, q)
        /\ Code(p) = 201 /\ req[q].error = "P2002"
        /\ req[p].slug = req[q].slug

\* C3: a createSpace whose insert hits the unique constraint on slug ends
\* with Conflict (409), not with success and not with 500, and the insert is
\* not tried again.
C3_ConflictOnSlugRace ==
    \A p \in Procs :
        (Done(p) /\ req[p].op = "create" /\ req[p].error = "P2002") =>
            /\ Code(p) = 409
            /\ Len(SelectSeq(req[p].calls, LAMBDA c : c = "space.create")) = 1

\* the slug ensureUniqueSlug has returned to the handler of p, if it has
ReturnedSlug(p) ==
    IF req[p].pc = "c_create" THEN {req[p].slug}
    ELSE IF req[p].pc \in {"u_type", "u_categories", "u_features", "u_update"}
            /\ IsSome(req[p].updateData.slug)
    THEN {Val(req[p].updateData.slug)}
    ELSE {}

\* C4: with no other request running, the slug ensureUniqueSlug returns is
\* used by no existing Space; and successive creates whose names share a base
\* slug each persist a Space, all with pairwise distinct slugs.
C4_SlugUnusedSequential ==
    /\ \A p \in Procs : \A slug \in ReturnedSlug(p) : FindSpaceBySlug(slug) = {}
    /\ \A p \in Procs :
         (Done(p) /\ ValidCreate(p)) =>
             /\ Code(p) = 201
             /\ Val(req[p].response.body) \in DOMAIN space
    /\ \A a, b \in DOMAIN space :
         (a # b /\ SameBase(a, b)) => space[a].slug # space[b].slug

\* C4 witness: three creates in a row, names sharing one base slug, each
\* with its own Space.
C4_Witness ==
    /\ Cardinality(DOMAIN space) = 3
    /\ \A a, b \in DOMAIN space : SameBase(a, b)
    /\ \E p \in Procs : Done(p) /\ ValidCreate(p) /\ Code(p) = 201

\* the Space an update or delete request found at its lookup
Found(p) == Val(req[p].existingSpace)
\* the ids of a list that are not in a table
Missing(table, ids) == Range(ids) \ DOMAIN table
\* an optional list is absent, or every id in it is in the table
AllExist(table, ids) == IsSome(ids) => Missing(table, Val(ids)) = {}
\* an update by the Author of the Space it found
AuthorUpdate(p) ==
    /\ req[p].op = "update" /\ IsSome(req[p].existingSpace)
    /\ Found(p).submittedById = req[p].caller
\* every reference of the update payload exists
ValidUpdate(p) ==
    /\ IsSome(req[p].payload.typeId) => Val(req[p].payload.typeId) \in DOMAIN spaceType
    /\ AllExist(spaceCategory, req[p].payload.categoryIds)
    /\ AllExist(spaceFeature, req[p].payload.featureIds)

\* C5: an update by the Author whose payload has categoryIds (featureIds) and
\* every listed id exists leaves the Space with exactly the supplied set of
\* categories (features), an empty list with none.
C5_SetIsExactlySupplied ==
    \A p \in Procs :
        (Done(p) /\ AuthorUpdate(p) /\ ValidUpdate(p)) =>
            /\ Code(p) = 200
            /\ IsSome(req[p].payload.categoryIds) =>
                  CategoriesOf(Found(p).id) = Range(Val(req[p].payload.categoryIds))
            /\ IsSome(req[p].payload.featureIds) =>
                  FeaturesOf(Found(p).id) = Range(Val(req[p].payload.featureIds))

\* C6: an update whose payload omits categoryIds leaves the category set of
\* every Space as it was, at each of its steps, its write included, and one
\* that omits featureIds leaves the feature sets, whatever else it changes.
C6_AbsentKeyUntouched ==
    [][\A p \in Procs :
          (Steps(p) /\ req[p].op = "update" /\ req'[p].op = "update") =>
              /\ req[p].payload.categoryIds = None =>
                    \A id \in DOMAIN space : CategoriesOf(id)' = CategoriesOf(id)
              /\ req[p].payload.featureIds = None =>
                    \A id \in DOMAIN space : FeaturesOf(id)' = FeaturesOf(id)]_vars

\* C6 witness: an update without categoryIds has renamed a Space and set its
\* description and features, and the Space still has its category.
C6_Witness ==
    \E p \in Procs :
        /\ Done(p) /\ AuthorUpdate(p) /\ Code(p) = 200
        /\ req[p].payload.categoryIds = None
        /\ IsSome(req[p].payload.name) /\ IsSome(req[p].payload.featureIds)
        /\ space[Found(p).id].name # Found(p).name
        /\ CategoriesOf(Found(p).id) # {}

\* C7: an update or delete by a caller who is not the Author of the Space
\* ends with 403 at the lookup and changes nothing in the store.
C7_NonAuthorChangesNothing ==
    [][\A p \in Procs :
          (/\ req[p].pc \in {"u_find", "d_find"} /\ Steps(p)
           /\ IsSome(req'[p].existingSpace)
           /\ space[Val(req'[p].existingSpace).id].submittedById # req[p].caller) =>
              /\ req'[p].pc = "done"
              /\ req'[p].response.code = 403
              /\ UNCHANGED store]_vars

\* C7 witness: a delete by another user than the Author has been refused and
\* the Space, with its join rows, is still there.
C7_Witness ==
    \E p \in Procs :
        /\ Done(p) /\ req[p].op = "delete" /\ Code(p) = 403
        /\ req[p].identifier \in DOMAIN space
        /\ CategoriesOf(req[p].identifier) # {}

\* C8: in an update the existence check is first and the authorization
\* second, before anything else: no match gives 404 whoever calls, a match
\* and a caller who is not its Author gives 403 whatever the payload, and in
\* both cases the lookup is the only call made and nothing is written.
C8_ExistenceThenAuthorization ==
    [][\A p \in Procs :
          (req[p].pc = "u_find" /\ Steps(p)) =>
              /\ FindSpaceByIdentifier(req[p].identifier) = {} =>
                    /\ req'[p].pc = "done"
                    /\ req'[p].response.code = 404
                    /\ req'[p].response.message.text = "Space not found."
                    /\ req'[p].calls = <<"space.findFirst">>
                    /\ UNCHANGED store
              /\ (\A id \in FindSpaceByIdentifier(req[p].identifier) :
                      space[id].submittedById # req[p].caller)
                   /\ FindSpaceByIdentifier(req[p].identifier) # {} =>
                    /\ req'[p].pc = "done"
                    /\ req'[p].response.code = 403
                    /\ req'[p].calls = <<"space.findFirst">>
                    /\ UNCHANGED store]_vars

\* C8 witness: an update by another user than the Author, with a new name,
\* a missing type and missing category and feature ids, has been refused
\* after one call.
C8_Witness ==
    \E p \in Procs :
        /\ Done(p) /\ req[p].op = "update" /\ Code(p) = 403
        /\ req[p].calls = <<"space.findFirst">>
        /\ IsSome(req[p].payload.name)
        /\ req[p].payload.typeId = Some("tx")
        /\ ~AllExist(spaceCategory, req[p].payload.categoryIds)
        /\ ~AllExist(spaceFeature, req[p].payload.featureIds)

\* C9: a create with a typeId that matches no Type ends with 404, the
\* message naming that id and nothing else, even when category or feature
\* ids are missing too, and persists nothing.
C9_MissingTypeNamed ==
    [][\A p \in Procs :
          (/\ req[p].pc = "c_type" /\ Steps(p)
           /\ Val(req[p].payload.typeId) \notin DOMAIN spaceType) =>
              /\ req'[p].pc = "done"
              /\ req'[p].response.code = 404
              /\ req'[p].response.message.text = "Space Type with ID '%' not found."
              /\ req'[p].response.message.ids = <<Val(req[p].payload.typeId)>>
              /\ UNCHANGED store]_vars

\* C9 witness: a create with a missing type and missing category and feature
\* ids has been answered 404 naming the type alone.
C9_Witness ==
    \E p \in Procs :
        /\ Done(p) /\ req[p].op = "create" /\ Code(p) = 404
        /\ req[p].response.message.ids = <<"tx">>
        /\ ~AllExist(spaceCategory, req[p].payload.categoryIds)
        /\ ~AllExist(spaceFeature, req[p].payload.featureIds)
        /\ space = <<>>

\* the request of p ended at the reference check of this kind
FailedCheck(p, kind) ==
    req[p].response.message.text = "One or more " \o kind \o " IDs not found: %."
\* the request of p ran the reference check `call` on this non-empty list
Checked(p, call, ids) ==
    /\ NonEmpty(ids)
    /\ \E i \in 1..Len(req[p].calls) : req[p].calls[i] = call

\* C10: in create and update, the reference check of a non-empty categoryIds
\* or featureIds list, repeated ids included, passes exactly when every
\* supplied id exists; when it fails the 404 names the supplied ids that do
\* not exist, all of them and at least one.
C10_ReferenceCheck ==
    \A p \in Procs :
        (Done(p) /\ req[p].op \in {"create", "update"}) =>
            /\ Checked(p, "spaceCategory.findMany", req[p].payload.categoryIds) =>
                  LET missing == Missing(spaceCategory, Val(req[p].payload.categoryIds))
                  IN  /\ FailedCheck(p, "Category") <=> missing # {}
                      /\ FailedCheck(p, "Category") =>
                            /\ Code(p) = 404
                            /\ Range(req[p].response.message.ids) = missing
            /\ Checked(p, "spaceFeature.findMany", req[p].payload.featureIds) =>
                  LET missing == Missing(spaceFeature, Val(req[p].payload.featureIds))
                  IN  /\ FailedCheck(p, "Feature") <=> missing # {}
                      /\ FailedCheck(p, "Feature") =>
                            /\ Code(p) = 404
                            /\ Range(req[p].response.message.ids) = missing

\* the payload of p has a name other than the one its lookup found
Renames(p) ==
    /\ IsSome(req[p].payload.name)
    /\ Val(req[p].payload.name) # Found(p).name
\* the calls of p to the existence check of the slug generator
SlugCalls(r) == SelectSeq(r.calls, LAMBDA c : c = "space.findUnique")
\* the Spaces present before and after a step whose slug the step changes
SlugChanged == {id \in DOMAIN space \cap DOMAIN space' :
                   space'[id].slug # space[id].slug}

\* C11: an update whose payload has no name, or the name its lookup found,
\* never calls the slug generator and its write leaves every slug as it was;
\* a slug changes only at the write of an update whose name differs from the
\* name found, and only the slug of the Space it found.
C11_SlugFollowsRename ==
    [][/\ \A p \in Procs :
            (/\ Steps(p) /\ req'[p].op = "update"
             /\ IsSome(req'[p].existingSpace)
             /\ ~(/\ IsSome(req'[p].payload.name)
                  /\ Val(req'[p].payload.name) # Val(req'[p].existingSpace).name)) =>
                /\ SlugCalls(req'[p]) = <<>>
                /\ req'[p].updateData.slug = None
                /\ SlugChanged = {}
       /\ SlugChanged # {} =>
            \E p \in Procs :
                /\ req[p].pc = "u_update" /\ Steps(p) /\ Renames(p)
                /\ SlugChanged = {Found(p).id}]_vars

\* C11 witness: an update by the Author that gave the stored name again has
\* been applied with two calls, the lookup and the write.
C11_Witness ==
    \E p \in Procs :
        /\ Done(p) /\ AuthorUpdate(p) /\ Code(p) = 200
        /\ req[p].payload.name = Some(Found(p).name)
        /\ req[p].calls = <<"space.findFirst", "space.update">>
        /\ Found(p).id \in DOMAIN space
        /\ space[Found(p).id].name = Found(p).name

\* the suffixed candidates of a name, up to the largest counter of SpecSeq
SuffixedSlugs(name) == {SuffixedSlug(name, k) : k \in 1..(MaxRequestsSeq + 1)}
\* another Space than the one p found has the base slug of the payload's name
RenamesOntoOther(p) ==
    /\ AuthorUpdate(p) /\ Renames(p)
    /\ \E other \in DOMAIN space :
           /\ other # Found(p).id
           /\ space[other].slug = BaseSlug(Val(req[p].payload.name))

\* C12: with one request at a time, an update by the Author whose new name
\* has the base slug of another Space's slug ends with 200, not 409, and the
\* Space's slug is then the name's slug with a numeric suffix, the slug of no
\* other Space.
C12_RenameOntoTakenSlug ==
    \A p \in Procs :
        (Done(p) /\ RenamesOntoOther(p)) =>
            /\ Code(p) = 200
            /\ space[Found(p).id].name = Val(req[p].payload.name)
            /\ space[Found(p).id].slug \in SuffixedSlugs(Val(req[p].payload.name))
            /\ \A other \in DOMAIN space :
                   other # Found(p).id =>
                       space[other].slug # space[Found(p).id].slug

\* C12 witness: a Space has been renamed to a name whose base slug and first
\* suffixed slug are both taken, and has the second suffix.
C12_Witness ==
    \E p \in Procs :
        /\ Done(p) /\ RenamesOntoOther(p) /\ Code(p) = 200
        /\ req[p].counter > 2
        /\ space[Found(p).id].slug = SuffixedSlug(Val(req[p].payload.name), 2)

\* C13: whatever failure the write of an update raises, the answer follows
\* from its kind alone: 409 for a unique-constraint violation, 404 for a
\* required record not found, 500 for every other failure; and the store is
\* left as it was.
C13_WriteFailureByKind ==
    [][\A p \in Procs :
          (req[p].pc = "u_update" /\ Steps(p) /\ req'[p].error # "") =>
              /\ req'[p].pc = "done"
              /\ req'[p].response.code =
                     IF req'[p].error = "P2002" THEN 409
                     ELSE IF req'[p].error = "P2025" THEN 404
                     ELSE 500
              /\ UNCHANGED store]_vars

\* a type, category or feature that the payload of p references, and that
\* the handler of p has checked, is not in its table
ReferenceGone(p) ==
    LET payload == req[p].payload
    IN  TargetsMissing(
            IF IsSome(payload.typeId) THEN {Val(payload.typeId)} ELSE {},
            ConnectList(payload.categoryIds), ConnectList(payload.featureIds))

\* C14: a create or update that reaches its write after a type, category or
\* feature of its payload has been deleted, and whose write fails on the
\* missing record, ends with 404 and writes nothing.
C14_ReferenceDeletedBeforeWrite ==
    [][\A p \in Procs :
          (/\ req[p].pc \in {"c_create", "u_update"} /\ Steps(p)
           /\ ReferenceGone(p) /\ req'[p].error = "P2025") =>
              /\ req'[p].pc = "done"
              /\ req'[p].response.code = 404
              /\ UNCHANGED store]_vars

\* the description a create stores for the payload's description
StoredByCreate(description) ==
    IF description = None \/ description = Some(Null) THEN ""
    ELSE Val(description)
\* the description an update leaves, given the one stored before
StoredByUpdate(description, before) ==
    IF description = None THEN before
    ELSE IF description = Some(Null) THEN ""
    ELSE Val(description)

\* C15: no stored Space has a null description: a create stores the empty
\* string for an absent or null description and an update for a null one,
\* any other description is stored as given, and an update without the key
\* leaves the stored one.
C15_DescriptionNeverNull ==
    [][/\ \A id \in DOMAIN space' : space'[id].description # Null
       /\ \A p \in Procs :
            (req[p].pc = "c_create" /\ Steps(p) /\ req'[p].response.code = 201) =>
                space'[Val(req'[p].response.body)].description =
                    StoredByCreate(req[p].payload.description)
       /\ \A p \in Procs :
            (req[p].pc = "u_update" /\ Steps(p) /\ req'[p].response.code = 200) =>
                space'[Found(p).id].description =
                    StoredByUpdate(req[p].payload.description,
                                   space[Found(p).id].description)]_vars

\* C15 witness: an update has renamed a Space and given it a null
\* description, and the Space stores the empty string.
C15_Witness ==
    \E p \in Procs :
        /\ Done(p) /\ AuthorUpdate(p) /\ Code(p) = 200
        /\ req[p].payload.description = Some(Null)
        /\ space[Found(p).id].description = ""
        /\ space[Found(p).id].name # Found(p).name

\* C16: whatever the interleaving of creates, updates and deletions of
\* types, the type of every stored Space is a row of the SpaceType table.
C16_TypeExists ==
    \A id \in DOMAIN space : space[id].typeId \in DOMAIN spaceType

\* C16 witness: the deletion of a type has been refused because a Space
\* references it, after an update moved the Space to that type.
C16_Witness ==
    \E p \in Procs :
        /\ Done(p) /\ req[p].op = "deleteType" /\ req[p].error = "P2003"
        /\ \E id \in DOMAIN space :
               space[id].typeId = Val(req[p].identifier) /\ space[id].typeId = "t2"

\* the write of a create or update of p succeeds in this step, on Space id
Writes(p, id) ==
    /\ Steps(p)
    /\ \/ /\ req[p].pc = "c_create" /\ req'[p].response.code = 201
          /\ id = Val(req'[p].response.body)
       \/ /\ req[p].pc = "u_update" /\ req'[p].response.code = 200
          /\ id = Found(p).id

\* C17: right after every successful write of a create or update, each
\* category of the Space is a row of SpaceCategory and each feature a row of
\* SpaceFeature, also when such rows are deleted while the request runs.
C17_RelationsExistAtWrite ==
    [][\A p \in Procs : \A id \in DOMAIN space' :
          Writes(p, id) =>
              /\ CategoriesOf(id)' \subseteq DOMAIN spaceCategory'
              /\ FeaturesOf(id)' \subseteq DOMAIN spaceFeature'
              /\ \A q \in spaceToSpaceCategory' : q[2] \in DOMAIN spaceCategory'
              /\ \A q \in spaceToSpaceFeature' : q[2] \in DOMAIN spaceFeature']_vars

\* C17 witness: an update has set the categories of a Space while another
\* request ran, and the category the Space was created with is deleted.
C17_Witness ==
    \E p \in Procs :
        /\ Done(p) /\ AuthorUpdate(p) /\ Code(p) = 200 /\ req[p].overlaps # {}
        /\ CategoriesOf(Found(p).id) = {"c2"}
        /\ "c1" \notin DOMAIN spaceCategory

\* C18: a Space gets its creator as Author, and no step of any request, an
\* update by any caller with any body included, gives a stored Space another
\* Author or another id.
C18_AuthorAndIdFixed ==
    [][/\ \A p \in Procs :
            (req[p].pc = "c_create" /\ Steps(p) /\ req'[p].response.code = 201) =>
                /\ Val(req'[p].response.body) \notin DOMAIN space
                /\ space'[Val(req'[p].response.body)].submittedById = req[p].caller
       /\ \A id \in DOMAIN space \cap DOMAIN space' :
            space'[id].submittedById = space[id].submittedById
       /\ \A p \in Procs :
            (req[p].op = "update" /\ Steps(p)) => DOMAIN space' = DOMAIN space]_vars

\* C18 witness: an update by the Author whose body named another id and
\* another Author has renamed the Space, which has the Author it had.
C18_Witness ==
    \E p \in Procs :
        /\ Done(p) /\ AuthorUpdate(p) /\ Code(p) = 200
        /\ "submittedById" \in DOMAIN req[p].json
        /\ req[p].json.submittedById = Some("u2")
        /\ req[p].caller = "u1"
        /\ Found(p).id # Val(req[p].json.id)
        /\ space[Found(p).id].name # Found(p).name
        /\ space[Found(p).id].submittedById = "u1"

\* C19: no step of a create request but its successful insert changes the
\* store, so a create that ends with an error, from a reference check, from
\* the unique index or from any other failure of the insert, leaves no Space
\* row and no join row; and every join row belongs to a stored Space.
C19_FailedCreateLeavesNothing ==
    [][/\ \A p \in Procs :
            (Steps(p) /\ req[p].op = "create" /\ req'[p].response.code # 201) =>
                UNCHANGED store
       /\ \A q \in spaceToSpaceCategory' \cup spaceToSpaceFeature' :
            q[1] \in DOMAIN space']_vars

\* C19 witness: of two creates one has its Space and its join rows, and the
\* other was rejected by the unique index at its insert and left nothing.
C19_Witness ==
    \E p \in Procs :
        /\ Done(p) /\ req[p].op = "create" /\ req[p].error = "P2002"
        /\ Code(p) = 500
        /\ Cardinality(DOMAIN space) = 1
        /\ Cardinality(spaceToSpaceCategory) = 1
        /\ Cardinality(spaceToSpaceFeature) = 1

\* the 404 of a reference check of an update
ReferenceNotFound(response) ==
    /\ response.code = 404
    /\ response.message.text \in
           {"Space Type with ID '%' not found.",
            "One or more Category IDs not found: %.",
            "One or more Feature IDs not found: %."}

\* C20: an update makes no write before its one call of space.update: the
\* lookup, the slug generator and the reference checks change nothing, and
\* an update that a reference check ends with 404 has not called
\* space.update, so every field and relation of the Space is as it was, also
\* when a slug had been generated for a new name.
C20_NotFoundBeforeAnyWrite ==
    [][\A p \in Procs :
          (Steps(p) /\ req[p].op = "update") =>
              /\ req[p].pc # "u_update" => UNCHANGED store
              /\ ReferenceNotFound(req'[p].response) =>
                    /\ req[p].pc \in {"u_type", "u_categories", "u_features"}
                    /\ req'[p].pc = "done"
                    /\ \A i \in 1..Len(req'[p].calls) :
                           req'[p].calls[i] # "space.update"
                    /\ UNCHANGED store]_vars

\* C20 witness: an update by the Author with a new name and a missing
\* feature id has passed the slug generator and the type and category
\* checks, was answered 404, and the Space has its name and slug.
C20_Witness ==
    \E p \in Procs :
        /\ Done(p) /\ AuthorUpdate(p) /\ ReferenceNotFound(req[p].response)
        /\ req[p].response.message.ids = <<"fx">>
        /\ Renames(p) /\ IsSome(req[p].updateData.slug)
        /\ IsSome(req[p].updateData.type) /\ IsSome(req[p].updateData.categories)
        /\ space[Found(p).id].name = Found(p).name
        /\ space[Found(p).id].slug # Val(req[p].updateData.slug)

\* the taxonomy tables
taxonomy == <<spaceType, spaceCategory, spaceFeature>>

\* C21: a delete whose identifier is the id of no Space, the slug of one
\* included, ends with 404; one by a caller who is not the Author with 403;
\* both change nothing.  Any other delete removes the Space and its join
\* rows, and leaves every other Space, every other join row and the
\* taxonomy as they were.
C21_DeleteSpace ==
    [][\A p \in Procs :
          (Steps(p) /\ req[p].op = "delete") =>
            LET id == req[p].identifier
            IN  /\ (req[p].pc = "d_find" /\ id \notin DOMAIN space) =>
                      /\ req'[p].pc = "done" /\ req'[p].response = SpaceNotFound
                      /\ UNCHANGED store
                /\ (/\ req[p].pc = "d_find" /\ id \in DOMAIN space
                    /\ space[id].submittedById # req[p].caller) =>
                      /\ req'[p].pc = "done" /\ req'[p].response.code = 403
                      /\ UNCHANGED store
                /\ (/\ req[p].pc = "d_find" /\ id \in DOMAIN space
                    /\ space[id].submittedById = req[p].caller) =>
                      /\ req'[p].pc = "d_delete"
                      /\ UNCHANGED store
                /\ (req[p].pc = "d_delete" /\ id \in DOMAIN space) =>
                      /\ req'[p].pc = "done" /\ req'[p].response.code = 204
                      /\ DOMAIN space' = DOMAIN space \ {id}
                      /\ \A other \in DOMAIN space' : space'[other] = space[other]
                      /\ spaceToSpaceCategory' =
                             {q \in spaceToSpaceCategory : q[1] # id}
                      /\ spaceToSpaceFeature' =
                             {q \in spaceToSpaceFeature : q[1] # id}
                      /\ UNCHANGED <<taxonomy, nextId>>]_vars

\* C21 witness: the Author has deleted one of two Spaces that both had a
\* category and a feature; the other Space is there with its rows, and the
\* join tables hold its rows only.
C21_Witness ==
    \E p \in Procs :
        /\ Done(p) /\ req[p].op = "delete" /\ Code(p) = 204
        /\ Val(req[p].existingSpace).id \notin DOMAIN space
        /\ Cardinality(DOMAIN space) = 1
        /\ Cardinality(spaceToSpaceCategory) = 1
        /\ Cardinality(spaceToSpaceFeature) = 1
        /\ \A id \in DOMAIN space : CategoriesOf(id) # {} /\ FeaturesOf(id) # {}

\* the table a taxonomy request of p writes to
TableOf(p) ==
    IF req[p].op \in {"createType", "updateType"} THEN spaceType
    ELSE IF req[p].op \in {"createCategory", "updateCategory"} THEN spaceCategory
    ELSE spaceFeature
\* p is at the write of a taxonomy create or rename whose name another row
\* of the table has
WritesTakenName(p) ==
    /\ req[p].pc \in {"ct_create", "cc_create", "cf_create",
                      "ut_update", "uc_update", "uf_update"}
    /\ IsSome(req[p].payload.name)
    /\ \E other \in DOMAIN TableOf(p) :
           /\ TableOf(p)[other] = Val(req[p].payload.name)
           /\ req[p].identifier # Some(other)

GenericMessages ==
    {"Database operation failed unexpectedly.",
     "An unexpected server error occurred."}

\* C23: an update whose failure is neither a unique-constraint violation nor
\* a related record not found ends with 500 and a fixed generic message; the
\* text of the exception decides neither the status nor the message, and is
\* never returned.
C23_UnexpectedIsGeneric ==
    \A p \in Procs :
        (/\ Done(p) /\ req[p].op = "update"
         /\ req[p].error \notin {"", "P2002", "P2025"}) =>
            /\ Code(p) = 500
            /\ req[p].response.message.text \in GenericMessages
            /\ req[p].response.message.text # req[p].error

\* the identifier of the update of p is a slug, not an id
BySlug(p) ==
    /\ req[p].op = "update" /\ IsSome(req[p].existingSpace)
    /\ req[p].identifier # Found(p).id

\* C24: an update addressed by slug writes to the Space its lookup resolved,
\* named by id: the Space found stays the same until the answer, a successful
\* write changes the row of that Space and no other, and the write finds the
\* row as long as it exists, whatever its slug is by then and whoever has the
\* slug of the request.
C24_WriteKeyedById ==
    [][\A p \in Procs :
          /\ (req[p].pc = "u_find" /\ req'[p].pc # req[p].pc
              /\ IsSome(req'[p].existingSpace)) =>
                 Val(req'[p].existingSpace).id \in
                     FindSpaceByIdentifier(req[p].identifier)
          /\ (IsSome(req[p].existingSpace) /\ req'[p].pc # "idle") =>
                 req'[p].existingSpace = req[p].existingSpace
          /\ (BySlug(p) /\ req[p].pc = "u_update" /\ req'[p].pc # req[p].pc) =>
                 /\ req'[p].response.code = 200 =>
                        /\ DOMAIN space' = DOMAIN space
                        /\ \A id \in DOMAIN space \ {Found(p).id} :
                               space'[id] = space[id]
                 /\ Found(p).id \in DOMAIN space =>
                        req'[p].response.code # 404]_vars

\* C24 witness: an update addressed by slug has written to the Space it
\* found, whose slug another request changed after the lookup, so that the
\* slug in the request no longer names that Space.
C24_Witness ==
    \E p \in Procs :
        /\ Done(p) /\ BySlug(p) /\ Code(p) = 200
        /\ Found(p).id \in DOMAIN space
        /\ Found(p).id \notin FindSpaceByIdentifier(req[p].identifier)
        /\ \E q \in Procs \ {p} :
               /\ req[q].op = "update" /\ Done(q) /\ Code(q) = 200
               /\ IsSome(req[q].existingSpace) /\ Found(q).id = Found(p).id
               /\ req[q].updateData.slug # None

\* the candidates of ensureUniqueSlug in the order the claim gives them: the
\* lowercase strict slug first, then the default slug of the original name
\* with the suffixes 1, 2, 3, ...
Candidate(name, k) ==
    IF k = 0 THEN Slugify(name, TRUE, TRUE)
    ELSE Slugify(name, FALSE, FALSE) \o <<"-">> \o NatToString(k)
\* some Space has the slug
Used(slug) == \E id \in DOMAIN space : space[id].slug = slug
\* the largest suffix a behaviour of SpecSeq can reach
MaxSuffix == MaxRequestsSeq + 1

\* C25: with one request at a time, ensureUniqueSlug tries the lowercase
\* strict slug of the name and then the default slug of the original name
\* with the suffixes 1, 2, 3, ... in this order, and returns the first of
\* these candidates that no Space has.
C25_FirstUnusedCandidate ==
    \A p \in Procs :
        LET name == Val(req[p].payload.name)
        IN  /\ req[p].pc = "slug" =>
                /\ req[p].slug = Candidate(name, req[p].counter - 1)
                /\ \A j \in 0..(req[p].counter - 2) : Used(Candidate(name, j))
            /\ \A slug \in ReturnedSlug(p) :
                \E k \in 0..MaxSuffix :
                    /\ slug = Candidate(name, k)
                    /\ ~Used(slug)
                    /\ \A j \in 0..(k - 1) : Used(Candidate(name, j))

\* C25 witness: the generator has returned the candidate with suffix 2, the
\* slug of the name and the candidate with suffix 1 being taken.
C25_Witness ==
    \E p \in Procs :
        /\ ReturnedSlug(p) # {} /\ IsSome(req[p].payload.name)
        /\ ReturnedSlug(p) = {Candidate(Val(req[p].payload.name), 2)}
        /\ Used(Candidate(Val(req[p].payload.name), 0))
        /\ Used(Candidate(Val(req[p].payload.name), 1))

\* the handler of p is between the entry of ensureUniqueSlug and its write
BeforeWrite(p) ==
    req[p].pc \in {"slug", "c_create", "u_type", "u_categories", "u_features",
                   "u_update"}

\* C26: a request during which no other request has run makes at most n + 1
\* existence checks in ensureUniqueSlug, n being the number of Spaces; and
\* with other requests inserting Spaces meanwhile, finitely many of them,
\* every call of ensureUniqueSlug returns.
C26_SlugTerminates ==
    /\ [](\A p \in Procs :
            (BeforeWrite(p) /\ req[p].overlaps = {}) =>
                Len(SlugCalls(req[p])) <= Cardinality(DOMAIN space) + 1)
    /\ \A p \in Procs : (req[p].pc = "slug") ~> (req[p].pc # "slug")

\* C26 witness: ensureUniqueSlug has returned to a request after a check that
\* found the Space another request inserted while it ran.
C26_Witness ==
    \E p \in Procs :
        /\ req[p].pc = "c_create" /\ req[p].overlaps # {}
        /\ Len(SlugCalls(req[p])) > Cardinality(DOMAIN space)
        /\ Len(SlugCalls(req[p])) >= 2

\* the update of p is at its write, renames the Space it found to a name
\* whose slug that Space has, and no other Space has this slug
RenamesOntoOwnSlug(p) ==
    /\ req[p].pc = "u_update" /\ AuthorUpdate(p) /\ Renames(p)
    /\ Found(p).id \in DOMAIN space
    /\ space[Found(p).id].slug = BaseSlug(Val(req[p].payload.name))
    /\ \A other \in DOMAIN space \ {Found(p).id} :
           space[other].slug # space[Found(p).id].slug

\* C27: with one request at a time, the Author's rename of a Space to a
\* different name whose slug is the Space's own slug, a slug of no other
\* Space, succeeds and leaves the Space with that slug, without a suffix.
C27_RenameKeepsOwnSlug ==
    [][\A p \in Procs :
          (RenamesOntoOwnSlug(p) /\ req'[p].pc # req[p].pc) =>
              /\ req'[p].response.code = 200
              /\ space'[Found(p).id].name = Val(req[p].payload.name)
              /\ space'[Found(p).id].slug = space[Found(p).id].slug]_vars

\* p and q are answered deletes of one Space that ran at the same time
DeletedTogether(p, q) ==
    /\ p # q /\ Done(p) /\ Done(q) /\ Concurrent(p, q)
    /\ req[p].op = "delete" /\ req[q].op = "delete"
    /\ req[p].identifier = req[q].identifier
\* the delete of p found the Space and its caller is the Author
AuthorDelete(p) ==
    /\ IsSome(req[p].existingSpace)
    /\ Found(p).submittedById = req[p].caller

\* C28: of two deletes of one Space by its Author that run at the same time,
\* neither ends with 500 and at most one with 204; when both have found the
\* Space, exactly one ends with 204 and the other with 404, and the Space is
\* gone.
C28_ConcurrentDeletes ==
    \A p, q \in Procs :
        (DeletedTogether(p, q) /\ AuthorDelete(p)) =>
            /\ Code(p) \in {204, 404} /\ Code(q) \in {204, 404}
            /\ ~(Code(p) = 204 /\ Code(q) = 204)
            /\ AuthorDelete(q) =>
                  /\ Code(p) = 204 \/ Code(q) = 204
                  /\ Code(p) = 404 \/ Code(q) = 404
                  /\ req[p].identifier \notin DOMAIN space

\* C28 witness: two deletes have both found the Space; one has removed it and
\* the write of the other has found no row.
C28_Witness ==
    \E p, q \in Procs :
        /\ DeletedTogether(p, q) /\ AuthorDelete(p) /\ AuthorDelete(q)
        /\ Code(p) = 204 /\ Code(q) = 404 /\ req[q].error = "P2025"

\* C29: in every reachable state a lookup by identifier matches at most one
\* Space: the slug of no Space is the id of another.
C29_IdentifierUnambiguous ==
    /\ \A a, b \in DOMAIN space : a # b => space[a].slug # b
    /\ \A identifier \in Identifiers(MaxRequestsIds) :
           Cardinality(FindSpaceByIdentifier(identifier)) <= 1

\* the update of p, by the Author of the Space it found, is between its
\* lookup and its answer, and the Space is no longer there
SpaceGone(p) ==
    /\ AuthorUpdate(p) /\ req[p].pc \notin {"idle", "done"}
    /\ Found(p).id \notin DOMAIN space

\* C30: an update whose Space a delete has removed after the update's lookup
\* and authorization writes nothing in any of its steps, so that the Space
\* stays deleted and has no join row, and ends with 404.
C30_UpdateAfterDelete ==
    [][\A p \in Procs :
          (SpaceGone(p) /\ req'[p].pc # req[p].pc) =>
              /\ UNCHANGED store
              /\ \A row \in spaceToSpaceCategory' \cup spaceToSpaceFeature' :
                     row[1] # Found(p).id
              /\ req'[p].pc = "done" => req'[p].response.code = 404]_vars

\* C30 witness: a delete that ran at the same time as an update by the Author
\* has removed the Space after the update's lookup, and the update's write
\* has found no row.
C30_Witness ==
    \E p, q \in Procs :
        /\ p # q /\ Done(p) /\ AuthorUpdate(p) /\ Concurrent(p, q)
        /\ req[p].calls # <<>> /\ req[p].calls[Len(req[p].calls)] = "space.update"
        /\ req[p].error = "P2025" /\ Code(p) = 404
        /\ Done(q) /\ req[q].op = "delete" /\ Code(q) = 204
        /\ req[q].identifier = Found(p).id
        /\ Found(p).id \notin DOMAIN space

=============================================================================
